---------------------------- MODULE Spec2Model ----------------------------
(***************************************************************************)
(* Model of the OB-1 control plane's mesh scoring and recommendation code: *)
(*   bridge_mesh.py   QuanundrumEngine      (strategic value, tunnel       *)
(*                    potential, bridge recommendations)                   *)
(*   mesh_mapper.py   QuanundrumMeshMapper  (mesh weight, roles, graph)    *)
(*                                                                         *)
(* Conventions                                                             *)
(*  - A Python str is a sequence of one-character strings, so that the     *)
(*    substring test `a in b` and str.lower() are computed, not assumed.   *)
(*  - Python None is the value None below (a sequence that is no str).     *)
(*  - Strategic values and priorities are Python floats (size / 100); the  *)
(*    model keeps them exactly, in hundredths of a point (Pts(1) = 100).   *)
(*  - Mesh weights are floats with a .5 step (issues * 1.5); the model     *)
(*    keeps them exactly, in halves of a point (HalfPts(1) = 2).           *)
(*  - A commit is represented by its age in hours: datetime.now() minus    *)
(*    the commit's author date.                                            *)
(***************************************************************************)
EXTENDS Integers, Sequences, FiniteSets, TLC

VARIABLES
    \* ---- one call of a function on given arguments ----
    call,             \* [fn |-> name of the function, ...its arguments]
    result,           \* [returned |-> TRUE, value |-> what it returned], or Pending
    \* ---- QuanundrumEngine (bridge_mesh.py) ----
    engine_pc,        \* position of main() between the engine's phases
    repos,            \* self.repos: dict name -> repo_data, insertion order
    repos_data,       \* list returned by scan_repository_mesh
    dormant,          \* list returned by identify_dormant_logic
    recommendations,  \* list returned by generate_bridge_recommendations
    \* ---- QuanundrumMeshMapper (mesh_mapper.py) ----
    mapper_pc,        \* position of the __main__ block of mesh_mapper.py
    mesh_data,        \* self.mesh_data: dict name -> metrics, insertion order
    G,                \* the networkx graph of generate_mesh_visualization
    \* ---- the file both programs write ----
    MESH_MAP_json,    \* content of MESH_MAP.json
    \* ---- one process running bridge_mesh.py, and who started it ----
    attempts,         \* what execute_autonomous_enhancements printed and filed
    process,          \* [exited |-> FALSE], or [exited |-> TRUE, returncode]
    activator_report, \* what activate_mesh_protocols printed about the run
    runs              \* number of analysis runs started so far

run_vars == <<attempts, process, activator_report, runs>>

vars == <<call, result, engine_pc, repos, repos_data, dormant, recommendations,
          mapper_pc, mesh_data, G, MESH_MAP_json, run_vars>>

---------------------------------------------------------------------------
\* Python values

None == <<"<None>">>

\* the result of a call that has not returned yet
Pending == [returned |-> FALSE]

Min(a, b) == IF a <= b THEN a ELSE b

\* str.lower(), one character
LowerChar(c) ==
    CASE c = "A" -> "a" [] c = "B" -> "b" [] c = "C" -> "c" [] c = "D" -> "d"
      [] c = "E" -> "e" [] c = "F" -> "f" [] c = "G" -> "g" [] c = "H" -> "h"
      [] c = "I" -> "i" [] c = "J" -> "j" [] c = "K" -> "k" [] c = "L" -> "l"
      [] c = "M" -> "m" [] c = "N" -> "n" [] c = "O" -> "o" [] c = "P" -> "p"
      [] c = "Q" -> "q" [] c = "R" -> "r" [] c = "S" -> "s" [] c = "T" -> "t"
      [] c = "U" -> "u" [] c = "V" -> "v" [] c = "W" -> "w" [] c = "X" -> "x"
      [] c = "Y" -> "y" [] c = "Z" -> "z" [] OTHER -> c

\* str.lower()
Lower(s) == [i \in 1..Len(s) |-> LowerChar(s[i])]

\* Python's `sub in s` on two strs
Contains(sub, s) ==
    \E i \in 0..(Len(s) - Len(sub)) : \A j \in 1..Len(sub) : s[i + j] = sub[j]

\* truthiness of an optional str: None and "" are both falsy
Truthy(s) == s # None /\ Len(s) > 0

---------------------------------------------------------------------------
\* String literals of the source

S_ai == <<"a","i">>
S_blockchain == <<"b","l","o","c","k","c","h","a","i","n">>
S_agent == <<"a","g","e","n","t">>
S_ob1 == <<"o","b","1">>
S_smart == <<"s","m","a","r","t">>
S_contract == <<"c","o","n","t","r","a","c","t">>
S_control_plane == <<"c","o","n","t","r","o","l","-","p","l","a","n","e">>
S_enhanced == <<"e","n","h","a","n","c","e","d">>
S_infrastructure == <<"i","n","f","r","a","s","t","r","u","c","t","u","r","e">>
S_simple == <<"s","i","m","p","l","e">>
S_hub == <<"h","u","b">>
N_ob1_control_plane ==
    <<"o","b","1","-","c","o","n","t","r","o","l","-","p","l","a","n","e">>
N_ob1_enhanced_capabilities ==
    <<"o","b","1","-","e","n","h","a","n","c","e","d","-",
      "c","a","p","a","b","i","l","i","t","i","e","s">>
N_blockchain_ai_infrastructure ==
    <<"b","l","o","c","k","c","h","a","i","n","-","a","i","-",
      "i","n","f","r","a","s","t","r","u","c","t","u","r","e">>
N_ob1_simple_ai == <<"o","b","1","-","s","i","m","p","l","e","-","a","i">>
N_ob1_agent_hub == <<"o","b","1","-","a","g","e","n","t","-","h","u","b">>

L_Python == <<"P","y","t","h","o","n">>
L_JavaScript == <<"J","a","v","a","S","c","r","i","p","t">>
L_TypeScript == <<"T","y","p","e","S","c","r","i","p","t">>

PreferredLanguages == {L_Python, L_JavaScript, L_TypeScript}

keywords == <<S_ai, S_blockchain, S_agent, S_ob1, S_smart, S_contract>>

---------------------------------------------------------------------------
\* Units

\* n points of strategic value, in hundredths (repo.size / 100 is a float)
Pts(n) == n * 100

\* timedelta.days of an age given in hours: whole days, rounded down
Days(age) == age \div 24

---------------------------------------------------------------------------
\* QuanundrumEngine.calculate_strategic_value

\* the keyword loop without .lower() on the description
RECURSIVE KeywordScore_case_sensitive(_, _)
KeywordScore_case_sensitive(description, k) ==
    IF k > Len(keywords) THEN 0
    ELSE (IF Contains(Lower(keywords[k]), description) THEN Pts(15) ELSE 0)
         + KeywordScore_case_sensitive(description, k + 1)

\* the keyword loop: +15 for every keyword found in the lowered description
RECURSIVE KeywordScore(_, _)
KeywordScore(description, k) ==
    IF k > Len(keywords) THEN 0
    ELSE (IF Contains(Lower(keywords[k]), Lower(description))
             THEN Pts(15) ELSE 0)
         + KeywordScore(description, k + 1)

recent_commits(cs) == SelectSeq(cs, LAMBDA c : Days(c) <= 7)

\* calculate_strategic_value returning score instead of min(score, 100)
calculate_strategic_value_uncapped(r, cs) ==
    Len(recent_commits(cs)) * Pts(10)
    + Min(r.size, Pts(50))
    + (IF r.language \in PreferredLanguages THEN Pts(20) ELSE 0)
    + (IF Truthy(r.description) THEN KeywordScore(r.description, 1) ELSE 0)

calculate_strategic_value(r, cs) ==
    LET s1 == Len(recent_commits(cs)) * Pts(10)
        s2 == s1 + Min(r.size, Pts(50))
        s3 == s2 + (IF r.language \in PreferredLanguages THEN Pts(20) ELSE 0)
        s4 == s3 + (IF Truthy(r.description)
                       THEN KeywordScore(r.description, 1) ELSE 0)
    IN  Min(s4, Pts(100))

\* assess_tunnel_potential with the size rule ahead of the 'ob1' rule
assess_tunnel_potential_size_first(r) ==
    IF r.name \in {N_ob1_control_plane} THEN "INFINITE"
    ELSE IF r.name \in {N_ob1_enhanced_capabilities,
                        N_blockchain_ai_infrastructure} THEN "CRITICAL"
    ELSE IF r.name \in {N_ob1_simple_ai, N_ob1_agent_hub} THEN "VITAL"
    ELSE IF r.size > 1000 THEN "BRIDGE"
    ELSE IF Contains(S_ob1, r.name) THEN "ACTIVE"
    ELSE "LOW"

\* QuanundrumEngine.assess_tunnel_potential
assess_tunnel_potential(r) ==
    IF r.name \in {N_ob1_control_plane} THEN "INFINITE"
    ELSE IF r.name \in {N_ob1_enhanced_capabilities,
                        N_blockchain_ai_infrastructure} THEN "CRITICAL"
    ELSE IF r.name \in {N_ob1_simple_ai, N_ob1_agent_hub} THEN "VITAL"
    ELSE IF Contains(S_ob1, r.name) THEN "ACTIVE"
    ELSE IF r.size > 1000 THEN "BRIDGE"
    ELSE "LOW"

---------------------------------------------------------------------------
\* Python dict with insertion order: a sequence of entries with distinct
\* .name keys.  d[k] = v overwrites in place or appends.

DictKeys(d) == [i \in 1..Len(d) |-> d[i].name]

DictHas(d, k) == \E i \in 1..Len(d) : d[i].name = k

DictGet(d, k) == d[CHOOSE i \in 1..Len(d) : d[i].name = k]

DictPut(d, e) ==
    IF DictHas(d, e.name)
    THEN [i \in 1..Len(d) |-> IF d[i].name = e.name THEN e ELSE d[i]]
    ELSE Append(d, e)

---------------------------------------------------------------------------
\* QuanundrumMeshMapper: mesh weight and labels

\* n points of mesh weight, in halves (issues_count * 1.5 is a float)
HalfPts(n) == n * 2

\* len(response.json()) whatever the status
response_count_any_status(response) == response.len

\* len(response.json()) if response.status_code == 200 else 0
response_count(response) ==
    IF response.status_code = 200 THEN response.len ELSE 0

\* the weight without the cap on the commit term
total_weight_unclamped(commits_count, issues_count) ==
    HalfPts(50) + HalfPts(commits_count * 2)
    + Min(issues_count * 3, HalfPts(20))

\* base_weight + commit_weight + issue_weight
total_weight(commits_count, issues_count) ==
    LET base_weight   == HalfPts(50)
        commit_weight == Min(HalfPts(commits_count * 2), HalfPts(30))
        issue_weight  == Min(issues_count * 3, HalfPts(20))
    IN  base_weight + commit_weight + issue_weight

\* the role with an exact-name test for the first rule
determine_repo_role_exact(name, weight) ==
    IF name = N_ob1_control_plane THEN "Command Center"
    ELSE IF Contains(S_enhanced, name) THEN "Core Engine"
    ELSE IF Contains(S_infrastructure, name) THEN "Foundation Layer"
    ELSE IF Contains(S_simple, name) THEN "Rapid Prototype"
    ELSE IF Contains(S_hub, name) THEN "Memory Layer"
    ELSE IF weight < HalfPts(60) THEN "Dormant Node"
    ELSE "Active Node"

determine_repo_role(name, weight) ==
    IF Contains(S_control_plane, name) THEN "Command Center"
    ELSE IF Contains(S_enhanced, name) THEN "Core Engine"
    ELSE IF Contains(S_infrastructure, name) THEN "Foundation Layer"
    ELSE IF Contains(S_simple, name) THEN "Rapid Prototype"
    ELSE IF Contains(S_hub, name) THEN "Memory Layer"
    ELSE IF weight < HalfPts(60) THEN "Dormant Node"
    ELSE "Active Node"

\* the enhancement ladder with its lowest threshold at 50 instead of 60
calculate_enhancement_level_floor_50(weight) ==
    IF weight >= HalfPts(90) THEN "INFINITE"
    ELSE IF weight >= HalfPts(80) THEN "CRITICAL"
    ELSE IF weight >= HalfPts(70) THEN "VITAL"
    ELSE IF weight >= HalfPts(50) THEN "NEURAL"
    ELSE "DORMANT"

calculate_enhancement_level(weight) ==
    IF weight >= HalfPts(90) THEN "INFINITE"
    ELSE IF weight >= HalfPts(80) THEN "CRITICAL"
    ELSE IF weight >= HalfPts(70) THEN "VITAL"
    ELSE IF weight >= HalfPts(60) THEN "NEURAL"
    ELSE "DORMANT"

calculate_recursive_potential(name, weight) ==
    IF Contains(S_control_plane, name) THEN "UNLIMITED"
    ELSE IF weight >= HalfPts(80) THEN "HIGH"
    ELSE IF weight >= HalfPts(60) THEN "MEDIUM"
    ELSE "ACTIVATING"

\* analyze_repository: the new value of self.mesh_data.  r is the listing
\* entry, commits_response and issues_response the two HTTP responses.
analyze_repository(md, r, commits_response, issues_response) ==
    LET name          == r.name
        commits_count == response_count(commits_response)
        issues_count  == response_count(issues_response)
        weight        == total_weight(commits_count, issues_count)
    IN  DictPut(md, [name                |-> name,
                     weight              |-> weight,
                     commits             |-> commits_count,
                     issues              |-> issues_count,
                     role                |-> determine_repo_role(name, weight),
                     enhancement_level   |-> calculate_enhancement_level(weight),
                     recursive_potential |->
                         calculate_recursive_potential(name, weight)])

\* should_connect testing 'simple' on repo1 only
should_connect_one_sided(repo1, repo2) ==
    IF Contains(S_control_plane, repo1) \/ Contains(S_control_plane, repo2)
    THEN TRUE
    ELSE IF Contains(S_enhanced, repo1) \/ Contains(S_enhanced, repo2)
    THEN TRUE
    ELSE IF Contains(S_infrastructure, repo1)
            \/ Contains(S_infrastructure, repo2)
    THEN ~Contains(S_simple, repo1)
    ELSE FALSE

should_connect(repo1, repo2) ==
    IF Contains(S_control_plane, repo1) \/ Contains(S_control_plane, repo2)
    THEN TRUE
    ELSE IF Contains(S_enhanced, repo1) \/ Contains(S_enhanced, repo2)
    THEN TRUE
    ELSE IF Contains(S_infrastructure, repo1)
            \/ Contains(S_infrastructure, repo2)
    THEN ~Contains(S_simple, repo1) /\ ~Contains(S_simple, repo2)
    ELSE FALSE

---------------------------------------------------------------------------
\* QuanundrumEngine: scan, dormant logic, bridge recommendations
\*
\* A remote repository (PyGithub Repository) is a record
\*   [name, size, language, description, commits, raises]
\* where commits is what repo.get_commits() yields (ages in hours, newest
\* first) and raises tells whether get_commits()/get_issues() raises.
\* repo_data keeps the fields the engine reads back (name, size,
\* commit_velocity, strategic_value, tunnel_potential); the other fields of
\* the dict are copies of remote attributes that no method reads.

\* list(repo.get_commits()[:10])
Take(s, n) == SubSeq(s, 1, Min(Len(s), n))

\* one iteration of the for loop of scan_repository_mesh, try body included
scan_one(remote) ==
    LET cs == Take(remote.commits, 10)
    IN  [name             |-> remote.name,
         size             |-> remote.size,
         commit_velocity  |-> Len(cs),
         strategic_value  |-> calculate_strategic_value(remote, cs),
         tunnel_potential |-> assess_tunnel_potential(remote)]

\* scan_repository_mesh: [repos |-> self.repos, repos_data |-> the list]
RECURSIVE scan_repository_mesh(_, _, _)
scan_repository_mesh(rs, out, listing) ==
    IF listing = <<>> THEN [repos |-> rs, repos_data |-> out]
    ELSE LET remote == Head(listing)
         IN  IF remote.raises
             THEN scan_repository_mesh(rs, out, Tail(listing))
             ELSE scan_repository_mesh(DictPut(rs, scan_one(remote)),
                                       Append(out, scan_one(remote)),
                                       Tail(listing))

\* identify_dormant_logic
identify_dormant_logic(rs) ==
    DictKeys(SelectSeq(rs, LAMBDA data :
        data.strategic_value < Pts(30) /\ data.size > 100))

\* calculate_bridge_priority with `bonus = 15` in place of `bonus += 15`
calculate_bridge_priority_no_stack(rs, source, target) ==
    LET source_value == DictGet(rs, source).strategic_value
        target_gap   == Pts(100) - DictGet(rs, target).strategic_value
        bonus0 == IF Contains(S_ob1, source) /\ Contains(S_ob1, target)
                  THEN Pts(20) ELSE 0
        bonus1 == IF source = N_ob1_enhanced_capabilities
                  THEN Pts(15) ELSE bonus0
        bonus  == IF target \in {N_ob1_simple_ai, N_ob1_agent_hub}
                  THEN bonus1 + Pts(10) ELSE bonus1
    IN  source_value + target_gap + bonus

\* calculate_bridge_priority
calculate_bridge_priority(rs, source, target) ==
    LET source_value == DictGet(rs, source).strategic_value
        target_gap   == Pts(100) - DictGet(rs, target).strategic_value
        bonus0 == IF Contains(S_ob1, source) /\ Contains(S_ob1, target)
                  THEN Pts(20) ELSE 0
        bonus1 == IF source = N_ob1_enhanced_capabilities
                  THEN bonus0 + Pts(15) ELSE bonus0
        bonus  == IF target \in {N_ob1_simple_ai, N_ob1_agent_hub}
                  THEN bonus1 + Pts(10) ELSE bonus1
    IN  source_value + target_gap + bonus

\* an insertion that places e ahead of the elements of equal priority
SortInsert_ahead_of_ties(sorted, e) ==
    LET ahead == Cardinality({i \in 1..Len(sorted) :
                                 sorted[i].priority > e.priority})
    IN  SubSeq(sorted, 1, ahead) \o <<e>>
        \o SubSeq(sorted, ahead + 1, Len(sorted))

\* list.sort(key=priority, reverse=True): stable, descending
SortInsert(sorted, e) ==
    LET ahead == Cardinality({i \in 1..Len(sorted) :
                                 sorted[i].priority >= e.priority})
    IN  SubSeq(sorted, 1, ahead) \o <<e>>
        \o SubSeq(sorted, ahead + 1, Len(sorted))

RECURSIVE SortByPriority(_)
SortByPriority(s) ==
    IF s = <<>> THEN <<>>
    ELSE SortInsert(SortByPriority(SubSeq(s, 1, Len(s) - 1)), s[Len(s)])

\* sources with >= 60 in place of > 60
sources_inclusive(rs) ==
    DictKeys(SelectSeq(rs, LAMBDA data : data.strategic_value >= Pts(60)))

sources(rs) ==
    DictKeys(SelectSeq(rs, LAMBDA data : data.strategic_value > Pts(60)))

\* targets without the `size > 0` condition
targets_any_size(rs) ==
    DictKeys(SelectSeq(rs, LAMBDA data : data.strategic_value < Pts(40)))

targets(rs) ==
    DictKeys(SelectSeq(rs, LAMBDA data :
        data.strategic_value < Pts(40) /\ data.size > 0))

\* the inner loop: for target in targets, appended to acc
RECURSIVE PairTargets(_, _, _, _)
PairTargets(rs, source, ts, acc) ==
    IF ts = <<>> THEN acc
    ELSE PairTargets(rs, source, Tail(ts),
            IF source # Head(ts)
            THEN Append(acc, [action   |-> "BRIDGE",
                              source   |-> source,
                              target   |-> Head(ts),
                              type     |-> "CAPABILITY_INJECTION",
                              priority |-> calculate_bridge_priority(
                                               rs, source, Head(ts))])
            ELSE acc)

\* the outer loop: for source in sources
RECURSIVE PairSources(_, _, _, _)
PairSources(rs, ss, ts, acc) ==
    IF ss = <<>> THEN acc
    ELSE PairSources(rs, Tail(ss), ts, PairTargets(rs, Head(ss), ts, acc))

\* generate_bridge_recommendations without the sort
generate_bridge_recommendations_unsorted(rs) ==
    PairSources(rs, sources(rs), targets(rs), << >>)

generate_bridge_recommendations(rs) ==
    SortByPriority(PairSources(rs, sources(rs), targets(rs), <<>>))

\* ---- inject_capabilities and execute_autonomous_enhancements ----

X_py == <<".","p","y">>
X_js == <<".","j","s">>
X_ts == <<".","t","s">>
X_md == <<".","m","d">>
useful_extensions == {X_py, X_js, X_ts, X_md}

K_util == <<"u","t","i","l">>
K_helper == <<"h","e","l","p","e","r">>
K_config == <<"c","o","n","f","i","g">>
useful_keywords == {K_util, K_helper, K_config, S_ai, S_agent}

\* str.endswith
EndsWith(suffix, s) ==
    /\ Len(s) >= Len(suffix)
    /\ SubSeq(s, Len(s) - Len(suffix) + 1, Len(s)) = suffix

\* the two nested ifs on content.name
is_useful(name) ==
    /\ \E x \in useful_extensions : EndsWith(x, name)
    /\ \E keyword \in useful_keywords : Contains(keyword, Lower(name))

\* useful_files after the inner try: the names of the kept entries, or
\* nothing when get_contents raised
useful_files(remote) ==
    IF remote.fault = "get_contents" THEN << >>
    ELSE SelectSeq(remote.contents, is_useful)

\* the issue body listing every useful file
issue_body_uncapped(source_name, target_name, useful) ==
    [source       |-> source_name,
     target       |-> target_name,
     listed       |-> useful,
     extract_from |-> <<source_name, useful[Len(useful)]>>]

\* the issue body: the bullet list of useful_files[:3], and the "Extract
\* utilities" line naming `file`, the loop variable after the loop
issue_body(source_name, target_name, useful) ==
    LET top == Take(useful, 3)
    IN  [source       |-> source_name,
         target       |-> target_name,
         listed       |-> top,
         extract_from |-> <<source_name, top[Len(top)]>>]

\* inject_capabilities against a remote [fault, contents]:
\* [raised |-> whether it raised, issues |-> the issues it created]
inject_capabilities(source_name, target_name, remote) ==
    IF remote.fault = "get_repo" THEN [raised |-> TRUE, issues |-> << >>]
    ELSE LET useful == useful_files(remote)
         IN  IF useful = << >> THEN [raised |-> FALSE, issues |-> << >>]
             ELSE IF remote.fault = "create_issue"
                  THEN [raised |-> TRUE, issues |-> << >>]
                  ELSE [raised |-> FALSE,
                        issues |-> << [repo   |-> target_name,
                                       source |-> source_name,
                                       body   |-> issue_body(source_name,
                                                      target_name, useful)] >>]

\* for rec in recommendations[:3], from the i-th on; remotes[i] is what
\* GitHub answers during the i-th attempt
RECURSIVE ExecuteLoop(_, _, _, _)
ExecuteLoop(top, remotes, i, acc) ==
    IF i > Len(top) THEN acc
    ELSE LET rec == top[i]
             out == inject_capabilities(rec.source, rec.target, remotes[i])
         IN  IF rec.type = "CAPABILITY_INJECTION"
             THEN ExecuteLoop(top, remotes, i + 1,
                     [log    |-> Append(acc.log,
                                    [source |-> rec.source,
                                     target |-> rec.target,
                                     status |-> IF out.raised THEN "FAILED"
                                                ELSE "INJECTED"]),
                      issues |-> acc.issues \o out.issues])
             ELSE ExecuteLoop(top, remotes, i + 1, acc)

\* the loop leaving at the first attempt that raises
execute_autonomous_enhancements_stop_at_failure(recs, remotes) ==
    LET failed == {i \in 1..Min(Len(recs), 3) :
                      inject_capabilities(recs[i].source, recs[i].target,
                                          remotes[i]).raised}
        n == IF failed = {} THEN 3
             ELSE CHOOSE i \in failed : \A j \in failed : i <= j
    IN  ExecuteLoop(Take(recs, n), remotes, 1, [log |-> << >>, issues |-> << >>])

\* execute_autonomous_enhancements: [log |-> the lines printed, one per
\* attempt, issues |-> the issues filed]
execute_autonomous_enhancements(recs, remotes) ==
    ExecuteLoop(Take(recs, 3), remotes, 1, [log |-> << >>, issues |-> << >>])

---------------------------------------------------------------------------
\* QuanundrumMeshMapper: scan, snapshot, graph
\*
\* A listing entry of GET /users/<owner>/repos is a record
\*   [name, commits_response, issues_response]
\* carrying the two responses analyze_repository will get for it.

\* ob1_repos = [repo for repo in repos if 'ob1' in repo['name'].lower()]
ob1_repos(listing) ==
    SelectSeq(listing, LAMBDA r : Contains(S_ob1, Lower(r.name)))

\* for repo in ob1_repos: self.analyze_repository(repo)
RECURSIVE AnalyzeAll(_, _)
AnalyzeAll(md, rs) ==
    IF rs = <<>> THEN md
    ELSE AnalyzeAll(analyze_repository(md, Head(rs),
                                       Head(rs).commits_response,
                                       Head(rs).issues_response),
                    Tail(rs))

\* self.mesh_data at the end of scan_mesh_topology
scan_mesh_topology(md, response, listing) ==
    IF response.status_code = 200 THEN AnalyzeAll(md, ob1_repos(listing))
    ELSE md

RECURSIVE SumWeights(_)
SumWeights(md) ==
    IF md = <<>> THEN 0 ELSE Head(md).weight + SumWeights(Tail(md))

\* the mesh_map dict of save_mesh_map (timestamp left out)
save_mesh_map(md) ==
    [mesh_status  |-> "ACTIVE",
     total_nodes  |-> Len(md),
     repositories |-> md,
     summary      |->
        [active_nodes  |->
            Len(SelectSeq(md, LAMBDA r : r.weight >= HalfPts(70))),
         dormant_nodes |->
            Len(SelectSeq(md, LAMBDA r : r.weight < HalfPts(60))),
         total_mesh_weight |-> SumWeights(md),
         enhancement_opportunities |->
            Len(SelectSeq(md, LAMBDA r : r.weight < HalfPts(80)))]]

\* with open('MESH_MAP.json', 'w') as f: json.dump(snapshot, f)
\* open(.., 'w') truncates before anything is written.
NoFile == [absent |-> TRUE]
Truncated == [truncated |-> TRUE]
WriteOutcomes == {"ok", "open_raises", "dump_raises"}
WriteFile(old, snapshot, outcome) ==
    CASE outcome = "ok"          -> snapshot
      [] outcome = "open_raises" -> old
      [] outcome = "dump_raises" -> Truncated

\* (weight1 + weight2) / 100 in place of / 200
edge_weight_div100(weight1, weight2) == 2 * (weight1 + weight2)

\* edge_weight = (weight1 + weight2) / 200, kept in units of 1/400
\* (the weights are in halves): 400 stands for the edge weight 1.0
edge_weight(weight1, weight2) == weight1 + weight2

\* the slice repos[i+1:] of generate_mesh_visualization
rest_after(rs, i) == SubSeq(rs, i + 1, Len(rs))

\* for repo2 in repos[i+1:]: if should_connect: G.add_edge(...)
RECURSIVE InnerEdges(_, _, _, _)
InnerEdges(md, repo1, others, acc) ==
    IF others = <<>> THEN acc
    ELSE InnerEdges(md, repo1, Tail(others),
            IF should_connect(repo1, Head(others))
            THEN Append(acc,
                   [u |-> repo1, v |-> Head(others),
                    weight |-> edge_weight(DictGet(md, repo1).weight,
                                           DictGet(md, Head(others)).weight)])
            ELSE acc)

\* for i, repo1 in enumerate(repos)
RECURSIVE OuterEdges(_, _, _, _)
OuterEdges(md, rs, i, acc) ==
    IF i > Len(rs) THEN acc
    ELSE OuterEdges(md, rs, i + 1,
                    InnerEdges(md, rs[i], rest_after(rs, i), acc))

\* the graph G of generate_mesh_visualization: its nodes, and the
\* add_edge calls in the order they are made
generate_mesh_visualization(md) ==
    [nodes |-> {md[i].name : i \in 1..Len(md)},
     edges |-> OuterEdges(md, DictKeys(md), 1, <<>>)]

---------------------------------------------------------------------------
\* Bounds and input sets

MaxRepos == 4          \* repositories in one listing of the engine's scan
MaxMeshRepos == 3      \* repositories in one listing of the mapper's scan
MaxCommitsLen == 16    \* length of a commits response (analyze_repository)
MaxIssuesLen == 15     \* length of an issues response (analyze_repository)
MaxCommitList == 10    \* commits handed to calculate_strategic_value

N_ob1_tools == <<"o","b","1","-","t","o","o","l","s">>
N_webapp == <<"w","e","b","a","p","p">>
N_x_control_plane_y ==
    <<"x","-","c","o","n","t","r","o","l","-","p","l","a","n","e","-","y">>
N_ob1_infrastructure ==
    <<"o","b","1","-","i","n","f","r","a","s","t","r","u","c","t","u","r","e">>
N_ob1_simple_infrastructure ==
    <<"o","b","1","-","s","i","m","p","l","e","-",
      "i","n","f","r","a","s","t","r","u","c","t","u","r","e">>
N_github_mirror == <<"g","i","t","h","u","b","-","m","i","r","r","o","r">>
N_OB1_Control_Plane ==
    <<"O","B","1","-","C","o","n","t","r","o","l","-","P","l","a","n","e">>
L_Go == <<"G","o">>
D_empty == << >>
D_AI_Agent == <<"A","I"," ","A","g","e","n","t">>
D_AGENT_for_ai ==
    <<"A","u","t","o","n","o","m","o","u","s"," ","A","G","E","N","T"," ",
      "f","o","r"," ","a","i">>
D_Smart_Contract == <<"S","m","a","r","t"," ","C","o","n","t","r","a","c","t",
                      " ","t","o","o","l","k","i","t">>
D_web_tool == <<"w","e","b"," ","t","o","o","l">>
D_Go_CLI == <<"G","o"," ","C","L","I">>
D_all == <<"O","B","1"," ","s","m","a","r","t"," ","c","o","n","t","r","a","c",
           "t"," ","b","l","o","c","k","c","h","a","i","n"," ","a","g","e",
           "n","t">>

Names == {N_ob1_control_plane, N_ob1_enhanced_capabilities,
          N_blockchain_ai_infrastructure, N_ob1_simple_ai, N_ob1_agent_hub,
          N_ob1_tools, N_webapp, N_x_control_plane_y, N_ob1_infrastructure,
          N_ob1_simple_infrastructure, N_github_mirror, N_OB1_Control_Plane}

Sizes == {0, 50, 1000, 1001, 2500, 5000, 6000}

Languages == {L_Python, L_JavaScript, L_TypeScript, L_Go, None}

Descriptions == {None, D_empty, D_AI_Agent, D_AGENT_for_ai, D_Smart_Contract,
                 D_web_tool, D_Go_CLI, D_all}

Repeat(x, n) == [i \in 1..n |-> x]

\* ages in hours, ascending: now, 7 days 12 hours, 8 days
CommitAges == <<0, 180, 192>>

\* commit lists, newest first, of at most MaxCommitList commits
CommitLists ==
    {Repeat(CommitAges[1], a) \o Repeat(CommitAges[2], b)
        \o Repeat(CommitAges[3], c) :
        <<a, b, c>> \in {t \in (0..MaxCommitList) \X (0..MaxCommitList)
                                  \X (0..MaxCommitList) :
                            t[1] + t[2] + t[3] <= MaxCommitList}}

\* mesh weights, in halves: 50, 59.5, 60, 70, 80, 90, 100
Weights == {100, 119, 120, 140, 160, 180, 200}

\* a response: its status and len(response.json()).  An error answers with
\* the JSON object {"message": .., "documentation_url": ..}, of length 2.
Responses(maxlen) ==
    [status_code : {200}, len : 0..maxlen] \cup [status_code : {403}, len : {2}]

---------------------------------------------------------------------------
\* The values of the variables a specification does not use

NoCall == [fn |-> "none"]

EngineIdle ==
    /\ engine_pc = "idle" /\ repos = << >> /\ repos_data = << >>
    /\ dormant = << >> /\ recommendations = << >>

NoAttempts == [log |-> << >>, issues |-> << >>]
Running == [exited |-> FALSE]

RunIdle ==
    /\ attempts = NoAttempts /\ process = Running
    /\ activator_report = "" /\ runs = 0

MapperIdle ==
    /\ mapper_pc = "idle" /\ mesh_data = << >>
    /\ G = [nodes |-> {}, edges |-> << >>]

---------------------------------------------------------------------------
\* Specification Spec: one run of main() of bridge_mesh.py
\*
\* user.get_repos() lists the account's repositories sorted by full name
\* (the API default; the call passes no sort), so a listing is a subset of
\* EngineNames in that order, each with the state the remote repository
\* is in.

EngineNames == <<N_ob1_control_plane, N_ob1_enhanced_capabilities,
                 N_ob1_simple_ai, N_ob1_tools, N_webapp>>

Remote(n, size, language, description, raises) ==
    [size |-> size, language |-> language, description |-> description,
     commits |-> Repeat(CommitAges[1], n), raises |-> raises]

\* strategic values 0, 0.5, 20, 40, 60, 80, 100, and a failing scan
RemoteStates ==
    {Remote(0, 0, None, None, FALSE),
     Remote(0, 50, None, None, FALSE),
     Remote(0, 2000, L_Go, D_web_tool, FALSE),
     Remote(4, 0, None, D_empty, FALSE),
     Remote(4, 0, L_Python, None, FALSE),
     Remote(8, 0, L_Go, None, FALSE),
     Remote(12, 2000, L_Python, D_AI_Agent, FALSE),
     Remote(0, 0, None, None, TRUE)}

RECURSIVE SortedSeq(_)
SortedSeq(S) ==
    IF S = {} THEN << >>
    ELSE LET m == CHOOSE x \in S : \A y \in S : x <= y
         IN  <<m>> \o SortedSeq(S \ {m})

\* the listing of the names picked by S, in the order of names, with states f
ListingOf(names, S, f) ==
    LET idx == SortedSeq(S)
    IN  [k \in 1..Len(idx) |->
            [name |-> names[idx[k]]] @@ f[idx[k]]]

Init ==
    /\ call = NoCall /\ result = Pending
    /\ engine_pc = "scan"
    /\ repos = << >> /\ repos_data = << >>
    /\ dormant = << >> /\ recommendations = << >>
    /\ MapperIdle /\ MESH_MAP_json = NoFile /\ RunIdle

\* Phase 1: engine.scan_repository_mesh()
ScanRepositoryMesh ==
    /\ engine_pc = "scan"
    /\ \E S \in SUBSET (1..Len(EngineNames)) :
         /\ Cardinality(S) <= MaxRepos
         /\ \E f \in [S -> RemoteStates] :
              LET scan == scan_repository_mesh(repos, << >>,
                              ListingOf(EngineNames, S, f))
              IN  /\ repos' = scan.repos
                  /\ repos_data' = scan.repos_data
    /\ engine_pc' = "dormant"
    /\ UNCHANGED <<call, result, dormant, recommendations,
                   mapper_pc, mesh_data, G, MESH_MAP_json,
                   run_vars>>

\* Phase 2: engine.identify_dormant_logic()
IdentifyDormantLogic ==
    /\ engine_pc = "dormant"
    /\ dormant' = identify_dormant_logic(repos)
    /\ engine_pc' = "recommend"
    /\ UNCHANGED <<call, result, repos, repos_data, recommendations,
                   mapper_pc, mesh_data, G, MESH_MAP_json,
                   run_vars>>

\* Phase 3: engine.generate_bridge_recommendations()
GenerateBridgeRecommendations ==
    /\ engine_pc = "recommend"
    /\ recommendations' = generate_bridge_recommendations(repos)
    /\ engine_pc' = "execute"
    /\ UNCHANGED <<call, result, repos, repos_data, dormant,
                   mapper_pc, mesh_data, G, MESH_MAP_json,
                   run_vars>>

Next ==
    \/ ScanRepositoryMesh
    \/ IdentifyDormantLogic
    \/ GenerateBridgeRecommendations

Spec == Init /\ [][Next]_vars

---------------------------------------------------------------------------
\* Specification SpecMapper: the __main__ block of mesh_mapper.py
\*
\* GET /users/<owner>/repos lists repositories sorted by full name.

MapperNames == <<N_blockchain_ai_infrastructure, N_ob1_agent_hub,
                 N_ob1_control_plane, N_ob1_enhanced_capabilities,
                 N_ob1_infrastructure, N_ob1_simple_ai>>

\* what the two requests of analyze_repository answer for a repository:
\* commits (per_page=100) and issues (30 a page)
CommitsResponses ==
    {[status_code |-> 403, len |-> 2], [status_code |-> 200, len |-> 10],
     [status_code |-> 200, len |-> 100]}

IssuesResponses ==
    {[status_code |-> 404, len |-> 2], [status_code |-> 200, len |-> 30]}

ListResponses == {[status_code |-> 200], [status_code |-> 401]}

InitMapper ==
    /\ call = NoCall /\ result = Pending
    /\ EngineIdle
    /\ mapper_pc = "scan"
    /\ mesh_data = << >>
    /\ G = [nodes |-> {}, edges |-> << >>]
    /\ MESH_MAP_json = NoFile /\ RunIdle

\* what scan_mesh_topology leaves behind for one list response, listing
\* and outcome of the write
ScanMeshTopologyWith(response, listing, outcome) ==
    LET md == scan_mesh_topology(mesh_data, response, listing)
    IN  /\ mesh_data' = md
        /\ MESH_MAP_json' =
              WriteFile(MESH_MAP_json, save_mesh_map(md), outcome)
        /\ mapper_pc' = IF outcome = "ok" THEN "visualize" ELSE "crashed"

\* mapper.scan_mesh_topology(), save_mesh_map() included
ScanMeshTopology ==
    /\ mapper_pc = "scan"
    /\ \E response \in ListResponses, outcome \in WriteOutcomes :
         IF response.status_code = 200
         THEN \E S \in SUBSET (1..Len(MapperNames)) :
                /\ Cardinality(S) <= MaxMeshRepos
                /\ \E f \in [S -> [commits_response : CommitsResponses,
                                   issues_response : IssuesResponses]] :
                     ScanMeshTopologyWith(response,
                         ListingOf(MapperNames, S, f), outcome)
         ELSE ScanMeshTopologyWith(response, << >>, outcome)
    /\ UNCHANGED <<call, result, engine_pc, repos, repos_data, dormant,
                   recommendations, G,
                   run_vars>>

\* mapper.generate_mesh_visualization()
GenerateMeshVisualization ==
    /\ mapper_pc = "visualize"
    /\ G' = generate_mesh_visualization(mesh_data)
    /\ mapper_pc' = "done"
    /\ UNCHANGED <<call, result, engine_pc, repos, repos_data, dormant,
                   recommendations, mesh_data, MESH_MAP_json,
                   run_vars>>

NextMapper ==
    \/ ScanMeshTopology
    \/ GenerateMeshVisualization

SpecMapper == InitMapper /\ [][NextMapper]_vars

\* ---- inputs of inject_capabilities and execute_autonomous_enhancements ----

MaxContents == 5

F_utils_py == <<"u","t","i","l","s",".","p","y">>
F_helper_js == <<"h","e","l","p","e","r",".","j","s">>
F_config_ts == <<"c","o","n","f","i","g",".","t","s">>
F_main_py == <<"m","a","i","n",".","p","y">>
F_AGENT_md == <<"A","G","E","N","T",".","m","d">>
F_utils_txt == <<"u","t","i","l","s",".","t","x","t">>
F_app_py == <<"a","p","p",".","p","y">>
Filenames == {F_utils_py, F_helper_js, F_config_ts, F_main_py, F_AGENT_md,
              F_utils_txt, F_app_py}

\* top-level listings: sequences of distinct names
ContentsLists ==
    UNION {{c \in [1..n -> Filenames] :
               \A i \in 1..n, j \in 1..n : i # j => c[i] # c[j]} :
           n \in 0..MaxContents}

\* which GitHub call raises during one inject_capabilities, if any
Faults == {"none", "get_repo", "get_contents", "create_issue"}

\* what GitHub answers during one attempt of the execute loop
AttemptRemotes ==
    {[fault |-> "none", contents |-> <<F_app_py, F_utils_py>>],
     [fault |-> "none", contents |-> <<F_app_py>>],
     [fault |-> "get_repo", contents |-> << >>],
     [fault |-> "create_issue", contents |-> <<F_utils_py>>]}

\* a mesh of two sources (100, 80) and three targets (20, 0.5, 20)
MeshStates ==
    <<Remote(0, 2000, L_Go, D_web_tool, FALSE),
      Remote(12, 2000, L_Python, D_AI_Agent, FALSE),
      Remote(0, 50, None, None, FALSE),
      Remote(8, 0, L_Go, None, FALSE),
      Remote(0, 2000, L_Go, D_web_tool, FALSE)>>

\* the sorted lists generate_bridge_recommendations returns on its parts
RecommendationLists ==
    {generate_bridge_recommendations(
         scan_repository_mesh(<< >>, << >>,
             ListingOf(EngineNames, S, MeshStates)).repos) :
     S \in {T \in SUBSET (1..Len(EngineNames)) : Cardinality(T) <= MaxRepos}}

\* ---- inputs of the two scans called on their own ----

ScanNames == <<N_ob1_simple_ai, N_ob1_tools, N_webapp>>

ScanStates ==
    {Remote(8, 0, L_Go, None, FALSE),
     Remote(0, 2000, L_Go, D_web_tool, FALSE),
     Remote(0, 0, None, None, TRUE)}

ScanListings ==
    UNION {{ListingOf(ScanNames, S, f) : f \in [S -> ScanStates]} :
           S \in SUBSET (1..Len(ScanNames))}

TopologyNames == <<N_blockchain_ai_infrastructure, N_ob1_agent_hub,
                   N_ob1_tools>>

TopologyListings ==
    UNION {{ListingOf(TopologyNames, S, f) :
               f \in [S -> [commits_response : CommitsResponses,
                            issues_response : IssuesResponses]]} :
           S \in SUBSET (1..Len(TopologyNames))}

---------------------------------------------------------------------------
\* Specification SpecCall: one call of one function on drawn arguments

InitCall ==
    /\ \/ call \in [fn : {"calculate_strategic_value"},
                    repo : [name : {N_webapp}, size : Sizes \ {1000, 1001},
                            language : Languages, description : Descriptions],
                    commits : CommitLists]
       \/ call \in [fn : {"assess_tunnel_potential"},
                    repo : [name : Names, size : Sizes,
                            language : {None}, description : {None}]]
       \/ call \in [fn : {"determine_repo_role"},
                    name : Names, weight : Weights]
       \/ call \in [fn : {"should_connect"}, repo1 : Names, repo2 : Names]
       \/ call \in [fn : {"analyze_repository"},
                    repo : [name : {N_ob1_tools, N_ob1_control_plane}],
                    commits_response : Responses(MaxCommitsLen),
                    issues_response : Responses(MaxIssuesLen)]
       \/ call \in [fn : {"inject_capabilities"},
                    source_name : {N_ob1_enhanced_capabilities},
                    target_name : {N_ob1_simple_ai},
                    remote : [fault : Faults, contents : ContentsLists]]
       \/ call \in [fn : {"execute_autonomous_enhancements"},
                    recommendations : RecommendationLists,
                    remotes : [1..3 -> AttemptRemotes]]
       \/ call \in [fn : {"scan_repository_mesh"}, listing : ScanListings]
       \/ call \in [fn : {"scan_mesh_topology"},
                    response : ListResponses, listing : TopologyListings]
    /\ result = Pending
    /\ EngineIdle /\ MapperIdle /\ MESH_MAP_json = NoFile /\ RunIdle

Return(fn, value) ==
    /\ call.fn = fn
    /\ ~result.returned
    /\ result' = [returned |-> TRUE, value |-> value]
    /\ UNCHANGED <<call, engine_pc, repos, repos_data, dormant,
                   recommendations, mapper_pc, mesh_data, G, MESH_MAP_json,
                   run_vars>>

CallCalculateStrategicValue ==
    Return("calculate_strategic_value",
           calculate_strategic_value(call.repo, call.commits))

CallAssessTunnelPotential ==
    Return("assess_tunnel_potential", assess_tunnel_potential(call.repo))

CallDetermineRepoRole ==
    Return("determine_repo_role", determine_repo_role(call.name, call.weight))

CallShouldConnect ==
    Return("should_connect", should_connect(call.repo1, call.repo2))

CallAnalyzeRepository ==
    Return("analyze_repository",
           analyze_repository(<< >>, call.repo, call.commits_response,
                              call.issues_response))

CallInjectCapabilities ==
    Return("inject_capabilities",
           inject_capabilities(call.source_name, call.target_name,
                               call.remote))

CallExecuteAutonomousEnhancements ==
    Return("execute_autonomous_enhancements",
           execute_autonomous_enhancements(call.recommendations,
                                           call.remotes))

CallScanRepositoryMesh ==
    Return("scan_repository_mesh",
           scan_repository_mesh(<< >>, << >>, call.listing))

CallScanMeshTopology ==
    Return("scan_mesh_topology",
           scan_mesh_topology(<< >>, call.response, call.listing))

NextCall ==
    \/ CallCalculateStrategicValue
    \/ CallAssessTunnelPotential
    \/ CallDetermineRepoRole
    \/ CallShouldConnect
    \/ CallAnalyzeRepository
    \/ CallInjectCapabilities
    \/ CallExecuteAutonomousEnhancements
    \/ CallScanRepositoryMesh
    \/ CallScanMeshTopology

SpecCall == InitCall /\ [][NextCall]_vars

---------------------------------------------------------------------------
\* Specification SpecRun: bridge_mesh.py run to its end, as the process
\* activate_mesh_protocols starts and as the five phases called again on
\* the same engine object

MaxRuns == 2

\* the mesh_map dict of update_mesh_map (timestamp left out)
update_mesh_map(rs) ==
    [repositories     |-> rs,
     status           |-> "QUANUNDRUM_ACTIVE",
     total_nodes      |-> Len(rs),
     high_value_nodes |->
        Len(SelectSeq(rs, LAMBDA r : r.strategic_value > Pts(60))),
     bridge_potential |->
        Len(SelectSeq(rs, LAMBDA r :
            r.tunnel_potential \in {"CRITICAL", "VITAL"}))]

Exited(returncode) == [exited |-> TRUE, returncode |-> returncode]

InitRun ==
    /\ call = NoCall /\ result = Pending
    /\ engine_pc = "start"
    /\ repos = << >> /\ repos_data = << >>
    /\ dormant = << >> /\ recommendations = << >>
    /\ MapperIdle /\ MESH_MAP_json = NoFile
    /\ attempts = NoAttempts /\ process = Running
    /\ activator_report = "" /\ runs = 0

\* main() up to the try: the token test and QuanundrumEngine()
MainStart ==
    /\ engine_pc = "start"
    /\ runs' = runs + 1
    /\ \E outcome \in {"no_token", "get_user_raises", "ok"} :
         CASE outcome = "no_token" ->
                 /\ engine_pc' = "no_token"
                 /\ process' = Exited(0)
           [] outcome = "get_user_raises" ->
                 /\ engine_pc' = "traceback"
                 /\ process' = Exited(1)
           [] outcome = "ok" ->
                 /\ engine_pc' = "scan"
                 /\ process' = process
    /\ UNCHANGED <<call, result, repos, repos_data, dormant, recommendations,
                   mapper_pc, mesh_data, G, MESH_MAP_json, attempts,
                   activator_report>>

\* Phase 1, or the except branch of main() when get_repos() raises
MainScan ==
    /\ engine_pc = "scan"
    /\ \/ \E listing \in ScanListings :
            LET scan == scan_repository_mesh(repos, << >>, listing)
            IN  /\ repos' = scan.repos
                /\ repos_data' = scan.repos_data
                /\ engine_pc' = "dormant"
       \/ /\ engine_pc' = "error"
          /\ UNCHANGED <<repos, repos_data>>
    /\ UNCHANGED <<call, result, dormant, recommendations,
                   mapper_pc, mesh_data, G, MESH_MAP_json, run_vars>>

\* Phase 4: engine.execute_autonomous_enhancements(recommendations)
MainExecute ==
    /\ engine_pc = "execute"
    /\ \E remotes \in [1..3 -> AttemptRemotes] :
         attempts' = execute_autonomous_enhancements(recommendations, remotes)
    /\ engine_pc' = "update"
    /\ UNCHANGED <<call, result, repos, repos_data, dormant, recommendations,
                   mapper_pc, mesh_data, G, MESH_MAP_json, process,
                   activator_report, runs>>

\* Phase 5 and what main() prints after it: COMPLETE, or ERROR from the
\* except branch when the write raises
MainUpdate ==
    /\ engine_pc = "update"
    /\ \E outcome \in WriteOutcomes :
         /\ MESH_MAP_json' =
               WriteFile(MESH_MAP_json, update_mesh_map(repos), outcome)
         /\ engine_pc' = IF outcome = "ok" THEN "complete" ELSE "error"
    /\ UNCHANGED <<call, result, repos, repos_data, dormant, recommendations,
                   mapper_pc, mesh_data, G, run_vars>>

\* main() returns, after COMPLETE as after ERROR, and the interpreter exits
MainReturn ==
    /\ engine_pc \in {"complete", "error"}
    /\ ~process.exited
    /\ process' = Exited(0)
    /\ UNCHANGED <<call, result, engine_pc, repos, repos_data, dormant,
                   recommendations, mapper_pc, mesh_data, G, MESH_MAP_json,
                   attempts, activator_report, runs>>

\* activate_mesh_protocols once subprocess.run has returned
ActivateMeshProtocols ==
    /\ process.exited
    /\ activator_report = ""
    /\ activator_report' = IF process.returncode = 0
                           THEN "Mesh analysis complete"
                           ELSE "Bridge analysis encountered issues"
    /\ UNCHANGED <<call, result, engine_pc, repos, repos_data, dormant,
                   recommendations, mapper_pc, mesh_data, G, MESH_MAP_json,
                   attempts, process, runs>>

\* activate_mesh_protocols called again: a new process, a new engine
NewProcess ==
    /\ activator_report # ""
    /\ runs < MaxRuns
    /\ engine_pc' = "start"
    /\ repos' = << >> /\ repos_data' = << >>
    /\ dormant' = << >> /\ recommendations' = << >>
    /\ attempts' = NoAttempts /\ process' = Running
    /\ activator_report' = ""
    /\ UNCHANGED <<call, result, mapper_pc, mesh_data, G, MESH_MAP_json,
                   runs>>

\* the five phases called again on the same engine object: self.repos is
\* what the earlier run left, the caller's locals are new
RunAgain ==
    /\ engine_pc \in {"complete", "error"}
    /\ ~process.exited
    /\ runs < MaxRuns
    /\ runs' = runs + 1
    /\ engine_pc' = "scan"
    /\ repos_data' = << >>
    /\ dormant' = << >> /\ recommendations' = << >>
    /\ attempts' = NoAttempts
    /\ UNCHANGED <<call, result, repos, mapper_pc, mesh_data, G,
                   MESH_MAP_json, process, activator_report>>

NextRun ==
    \/ MainStart
    \/ MainScan
    \/ IdentifyDormantLogic
    \/ GenerateBridgeRecommendations
    \/ MainExecute
    \/ MainUpdate
    \/ MainReturn
    \/ ActivateMeshProtocols
    \/ NewProcess
    \/ RunAgain

SpecRun == InitRun /\ [][NextRun]_vars

---------------------------------------------------------------------------
\* Properties of the scoring functions (specification SpecCall)

Returned(fn) == call.fn = fn /\ result.returned

\* the number of commits of cs that are at most 7 whole days old
RecentCount(cs) == Cardinality({i \in 1..Len(cs) : Days(cs[i]) <= 7})

\* the number of keywords that occur in the description, letter case aside
KeywordHits(d) ==
    IF d = None THEN 0
    ELSE Cardinality({k \in 1..Len(keywords) :
                         Contains(keywords[k], Lower(d))})

\* the sum of the four contributions, before the cap
Contributions(r, cs) ==
    Pts(10) * RecentCount(cs)
    + (IF r.size >= Pts(50) THEN Pts(50) ELSE r.size)
    + (IF r.language \in {L_Python, L_JavaScript, L_TypeScript}
       THEN Pts(20) ELSE 0)
    + Pts(15) * KeywordHits(r.description)

\* C1: calculate_strategic_value returns min(10*recentCommits
\* + min(size/100, 50) + 20*[language preferred] + 15*keywordHits, 100),
\* and the value lies in [0, 100].
C1_StrategicValueFormula ==
    Returned("calculate_strategic_value") =>
        /\ result.value =
              Min(Contributions(call.repo, call.commits), Pts(100))
        /\ 0 <= result.value
        /\ result.value <= Pts(100)

\* the cap acts: the contributions add up to more than 100
C1_Witness ==
    /\ Returned("calculate_strategic_value")
    /\ Contributions(call.repo, call.commits) > Pts(100)
    /\ result.value = Pts(100)

\* the name of the repository a classifier call is about
CallName ==
    IF call.fn = "assess_tunnel_potential" THEN call.repo.name
    ELSE IF call.fn = "determine_repo_role" THEN call.name
    ELSE None

\* C2 as stated: a name containing "control-plane" is Command Center for
\* determine_repo_role and INFINITE for assess_tunnel_potential.
C2_Original ==
    Contains(S_control_plane, CallName) =>
        /\ Returned("determine_repo_role") => result.value = "Command Center"
        /\ Returned("assess_tunnel_potential") => result.value = "INFINITE"

\* C2 amended: a name containing "control-plane" is Command Center for
\* determine_repo_role whatever the weight; assess_tunnel_potential returns
\* INFINITE exactly for the name "ob1-control-plane", whatever the size.
C2_ControlPlaneClassification ==
    /\ (Returned("determine_repo_role")
        /\ Contains(S_control_plane, call.name))
           => result.value = "Command Center"
    /\ Returned("assess_tunnel_potential")
           => (result.value = "INFINITE"
               <=> call.repo.name = N_ob1_control_plane)

\* "x-control-plane-y" of size 2500 is a BRIDGE, not INFINITE
C2_Witness ==
    /\ Returned("assess_tunnel_potential")
    /\ call.repo.name = N_x_control_plane_y
    /\ call.repo.size = 2500
    /\ result.value = "BRIDGE"

\* the description mentions "AI" and "Agent" in some letter case
MentionsAIAndAgent(d) ==
    /\ d # None
    /\ Contains(S_ai, Lower(d))
    /\ Contains(S_agent, Lower(d))

\* the descriptions that contain no keyword
PlainDescriptions == {d \in Descriptions : d # None /\ KeywordHits(d) = 0}

\* the value of the same call with another description
ValueWith(d) ==
    calculate_strategic_value([call.repo EXCEPT !.description = d],
                              call.commits)

\* C3 as stated: a description with "AI" and "Agent" scores strictly higher
\* than one without any keyword, all else equal.
C3_Original ==
    (Returned("calculate_strategic_value")
     /\ MentionsAIAndAgent(call.repo.description))
        => \A d \in PlainDescriptions : result.value > ValueWith(d)

\* C3 amended: a description with "AI" and "Agent" (any letter case) never
\* scores lower than one without any keyword, all else equal, and scores
\* strictly higher whenever the other value is below the cap of 100.
C3_KeywordsRaiseValue ==
    (Returned("calculate_strategic_value")
     /\ MentionsAIAndAgent(call.repo.description))
        => \A d \in PlainDescriptions :
              /\ result.value >= ValueWith(d)
              /\ ValueWith(d) < Pts(100) => result.value > ValueWith(d)

\* "AI Agent" against "web tool", below the cap
C3_Witness ==
    /\ Returned("calculate_strategic_value")
    /\ call.repo.description = D_AI_Agent
    /\ D_web_tool \in PlainDescriptions
    /\ ValueWith(D_web_tool) < result.value
    /\ result.value < Pts(100)

\* the entry analyze_repository stored
Analyzed == result.value[1]

\* C5: the mesh weight is 50 + min(2*commits, 30) + min(1.5*issues, 20)
\* and never below 50; with no commits and no issues, which includes two
\* failed fetches, it is exactly 50.
C5_MeshWeightFormula ==
    Returned("analyze_repository") =>
        LET c == Analyzed.commits
            i == Analyzed.issues
        IN  /\ c = (IF call.commits_response.status_code = 200
                    THEN call.commits_response.len ELSE 0)
            /\ i = (IF call.issues_response.status_code = 200
                    THEN call.issues_response.len ELSE 0)
            /\ Analyzed.weight =
                  HalfPts(50)
                  + (IF c >= 15 THEN HalfPts(30) ELSE HalfPts(2 * c))
                  + (IF 3 * i >= HalfPts(20) THEN HalfPts(20) ELSE 3 * i)
            /\ Analyzed.weight >= HalfPts(50)
            /\ (c = 0 /\ i = 0) => Analyzed.weight = HalfPts(50)

\* both fetches failed and the weight is 50
C5_Witness ==
    /\ Returned("analyze_repository")
    /\ call.commits_response.status_code # 200
    /\ call.issues_response.status_code # 200
    /\ Analyzed.weight = HalfPts(50)

---------------------------------------------------------------------------
\* Properties of the mesh graph (specification SpecMapper)

Entries(d) == {d[i] : i \in 1..Len(d)}

Edges == {G.edges[i] : i \in 1..Len(G.edges)}

\* C4 as stated: with many commits and issues (both terms at their cap)
\* the mesh weight exceeds 100.
C4_Original ==
    \A e \in Entries(mesh_data) :
        (e.commits >= 15 /\ e.issues >= 14) => e.weight > HalfPts(100)

\* C4 amended: the mesh weight never exceeds 100 (it is exactly 100 with
\* at least 15 commits and 14 issues), so the edge weight
\* (w(a)+w(b))/200 never exceeds 1.
C4_WeightAtMost100 ==
    /\ \A e \in Entries(mesh_data) :
          /\ e.weight <= HalfPts(100)
          /\ (e.commits >= 15 /\ e.issues >= 14) => e.weight = HalfPts(100)
    /\ \A g \in Edges : g.weight <= 400

\* two repositories of weight 100 are connected by an edge of weight 1
C4_Witness ==
    /\ mapper_pc = "done"
    /\ \E g \in Edges :
          /\ DictGet(mesh_data, g.u).commits = 100
          /\ DictGet(mesh_data, g.u).issues = 30
          /\ DictGet(mesh_data, g.v).weight = HalfPts(100)
          /\ g.weight = 400

ShouldConnectSymmetric ==
    \A a \in Names, b \in Names : should_connect(a, b) = should_connect(b, a)

\* C9: should_connect(a, b) = should_connect(b, a) for all pairs of names;
\* the graph has no edge from a repository to itself and at most one edge
\* per unordered pair of repositories.
C9_SymmetricSimpleGraph ==
    /\ ShouldConnectSymmetric
    /\ \A a \in G.nodes, b \in G.nodes :
          should_connect(a, b) = should_connect(b, a)
    /\ \A i \in 1..Len(G.edges) :
          /\ G.edges[i].u # G.edges[i].v
          /\ \A j \in 1..Len(G.edges) :
                {G.edges[i].u, G.edges[i].v} = {G.edges[j].u, G.edges[j].v}
                    => i = j

\* a graph of three nodes with two edges and one pair left unconnected
C9_Witness ==
    /\ mapper_pc = "done"
    /\ Cardinality(G.nodes) = 3
    /\ Len(G.edges) = 2
    /\ \E a \in G.nodes, b \in G.nodes :
          a # b /\ ~should_connect(a, b) /\ ~should_connect(b, a)

\* C10: every edge between a and b carries (weight(a) + weight(b)) / 200,
\* which lies in [0, 1]; weights 90 and 70 give 0.8.
C10_EdgeWeight ==
    \A g \in Edges :
        LET wa == DictGet(mesh_data, g.u).weight
            wb == DictGet(mesh_data, g.v).weight
        IN  /\ g.weight = wa + wb
            /\ 0 <= g.weight /\ g.weight <= 400
            /\ (wa = HalfPts(90) /\ wb = HalfPts(70)) => 10 * g.weight = 8 * 400

\* an edge between weights 90 and 70, of weight 0.8
C10_Witness ==
    /\ mapper_pc = "done"
    /\ \E g \in Edges :
          /\ DictGet(mesh_data, g.u).weight = HalfPts(90)
          /\ DictGet(mesh_data, g.v).weight = HalfPts(70)
          /\ 10 * g.weight = 8 * 400

---------------------------------------------------------------------------
\* Properties of the bridge recommendations (specification Spec)

Recs == {recommendations[i] : i \in 1..Len(recommendations)}

Value(name) == DictGet(repos, name).strategic_value

\* C6: no recommendation has source = target, and priorities are
\* non-increasing from first to last.
C6_DistinctAndSorted ==
    /\ \A r \in Recs : r.source # r.target
    /\ \A i \in 1..Len(recommendations), j \in 1..Len(recommendations) :
          i < j => recommendations[i].priority >= recommendations[j].priority

\* a list of recommendations of different priorities
C6_Witness ==
    /\ engine_pc = "execute"
    /\ Len(recommendations) >= 3
    /\ recommendations[1].priority > recommendations[Len(recommendations)].priority

\* the three bonus conditions
BothOb1(source, target) == Contains(S_ob1, source) /\ Contains(S_ob1, target)
Flagship(source) == source = N_ob1_enhanced_capabilities
PriorityTarget(target) == target = N_ob1_simple_ai \/ target = N_ob1_agent_hub

Bonus(source, target) ==
    (IF BothOb1(source, target) THEN Pts(20) ELSE 0)
    + (IF Flagship(source) THEN Pts(15) ELSE 0)
    + (IF PriorityTarget(target) THEN Pts(10) ELSE 0)

\* C7: priority = strategicValue(source) + (100 - strategicValue(target))
\* + bonus, the three bonus conditions stacking; source 80 and target 20
\* without bonus give 160.
C7_PriorityFormula ==
    \A r \in Recs :
        /\ r.priority = Value(r.source) + (Pts(100) - Value(r.target))
                        + Bonus(r.source, r.target)
        /\ (Value(r.source) = Pts(80) /\ Value(r.target) = Pts(20)
            /\ ~BothOb1(r.source, r.target) /\ ~Flagship(r.source)
            /\ ~PriorityTarget(r.target)) => r.priority = Pts(160)

\* one recommendation with the three bonuses, one 80 -> 20 without bonus
C7_Witness ==
    /\ \E r \in Recs :
          /\ BothOb1(r.source, r.target) /\ Flagship(r.source)
          /\ PriorityTarget(r.target)
          /\ r.priority = Value(r.source) + Pts(100) - Value(r.target) + Pts(45)
    /\ \E r \in Recs :
          /\ Value(r.source) = Pts(80) /\ Value(r.target) = Pts(20)
          /\ Bonus(r.source, r.target) = 0
          /\ r.priority = Pts(160)

SourceSet == {e.name : e \in {x \in Entries(repos) :
                                 x.strategic_value > Pts(60)}}

TargetSet == {e.name : e \in {x \in Entries(repos) :
                                 x.strategic_value < Pts(40) /\ x.size > 0}}

\* C8: exactly one recommendation for every pair (s, t) with
\* strategicValue(s) > 60, strategicValue(t) < 40 and size(t) > 0, and no
\* other; no repository is both source and target, so the list has
\* |sources| * |targets| entries; a value of exactly 60 or 40 is in neither.
C8_ExactlyTheCrossProduct ==
    engine_pc = "execute" =>
        /\ {<<r.source, r.target>> : r \in Recs} = SourceSet \X TargetSet
        /\ Len(recommendations) = Cardinality(SourceSet \X TargetSet)
        /\ Len(recommendations)
              = Cardinality(SourceSet) * Cardinality(TargetSet)
        /\ SourceSet \cap TargetSet = {}
        /\ \A e \in Entries(repos) :
              e.strategic_value \in {Pts(60), Pts(40)}
                  => /\ \A r \in Recs : r.source # e.name /\ r.target # e.name
                     /\ e.name \notin SourceSet \cup TargetSet

\* recommendations next to a repository at exactly 60 and one at exactly 40
C8_Witness ==
    /\ engine_pc = "execute"
    /\ Len(recommendations) >= 1
    /\ \E e \in Entries(repos) : e.strategic_value = Pts(60)
    /\ \E e \in Entries(repos) : e.strategic_value = Pts(40)

---------------------------------------------------------------------------
\* Properties of the recency test and of the classifiers (SpecCall)

\* the number of commits of cs whose age is at most 7 days (168 hours)
WithinSevenDays(cs) == Cardinality({i \in 1..Len(cs) : cs[i] <= 7 * 24})

\* C16 as stated: a commit adds 10 points exactly when its age is at most
\* 7 days; a commit 7 days and 12 hours old adds nothing.
C16_Original ==
    Returned("calculate_strategic_value") =>
        result.value =
            Min(Pts(10) * WithinSevenDays(call.commits)
                + Contributions(call.repo, << >>), Pts(100))

\* the label of the first rule of an ordered rule list that matches
FirstMatch(rules) ==
    rules[CHOOSE i \in 1..Len(rules) :
             rules[i][1] /\ \A j \in 1..(i - 1) : ~rules[j][1]][2]

TunnelRules(r) ==
    << <<r.name = N_ob1_control_plane, "INFINITE">>,
       <<r.name = N_ob1_enhanced_capabilities
         \/ r.name = N_blockchain_ai_infrastructure, "CRITICAL">>,
       <<r.name = N_ob1_simple_ai \/ r.name = N_ob1_agent_hub, "VITAL">>,
       <<Contains(S_ob1, r.name), "ACTIVE">>,
       <<r.size > 1000, "BRIDGE">>,
       <<TRUE, "LOW">> >>

\* C17: assess_tunnel_potential returns the label of the first matching
\* rule in the order INFINITE, CRITICAL, VITAL, ACTIVE, BRIDGE, LOW; a name
\* containing "ob1" is never BRIDGE or LOW, and one label is returned.
C17_TunnelFirstMatch ==
    Returned("assess_tunnel_potential") =>
        /\ result.value = FirstMatch(TunnelRules(call.repo))
        /\ result.value \in {"INFINITE", "CRITICAL", "VITAL", "ACTIVE",
                             "BRIDGE", "LOW"}
        /\ Contains(S_ob1, call.repo.name)
              => result.value \notin {"BRIDGE", "LOW"}

\* "ob1-tools" of size 2500 is ACTIVE, not BRIDGE
C17_Witness ==
    /\ Returned("assess_tunnel_potential")
    /\ call.repo.name = N_ob1_tools
    /\ call.repo.size = 2500
    /\ result.value = "ACTIVE"

RoleMarkers == <<S_control_plane, S_enhanced, S_infrastructure, S_simple,
                 S_hub>>

RoleRules(name, weight) ==
    << <<Contains(RoleMarkers[1], name), "Command Center">>,
       <<Contains(RoleMarkers[2], name), "Core Engine">>,
       <<Contains(RoleMarkers[3], name), "Foundation Layer">>,
       <<Contains(RoleMarkers[4], name), "Rapid Prototype">>,
       <<Contains(RoleMarkers[5], name), "Memory Layer">>,
       <<weight < HalfPts(60), "Dormant Node">>,
       <<TRUE, "Active Node">> >>

HasMarker(name) == \E k \in 1..Len(RoleMarkers) : Contains(RoleMarkers[k], name)

\* C18: determine_repo_role returns the label of the first matching rule
\* in the order control-plane, enhanced, infrastructure, simple, hub,
\* weight < 60, otherwise; Dormant Node and Active Node are returned only
\* for a name without any of the five markers, and a Dormant Node has
\* enhancement level DORMANT and recursive potential ACTIVATING.
C18_RoleFirstMatch ==
    /\ Returned("determine_repo_role") =>
          /\ result.value = FirstMatch(RoleRules(call.name, call.weight))
          /\ result.value \in {"Dormant Node", "Active Node"}
                <=> ~HasMarker(call.name)
    /\ Returned("analyze_repository") =>
          /\ Analyzed.role \in {"Dormant Node", "Active Node"}
                => ~HasMarker(Analyzed.name)
          /\ Analyzed.role = "Dormant Node"
                => /\ Analyzed.enhancement_level = "DORMANT"
                   /\ Analyzed.recursive_potential = "ACTIVATING"

\* "ob1-simple-infrastructure" holds two markers and gets the earlier label
C18_Witness ==
    /\ Returned("determine_repo_role")
    /\ call.name = N_ob1_simple_infrastructure
    /\ Contains(S_simple, call.name) /\ Contains(S_infrastructure, call.name)
    /\ result.value = "Foundation Layer"

---------------------------------------------------------------------------
\* Order of ties and range of priorities (Spec)

Position(seq, x) == CHOOSE i \in 1..Len(seq) : seq[i] = x

\* r was discovered before q by the nested loops over sources and targets,
\* both in the order of self.repos
DiscoveredBefore(r, q) ==
    LET order == DictKeys(repos)
    IN  \/ Position(order, r.source) < Position(order, q.source)
        \/ /\ r.source = q.source
           /\ Position(order, r.target) < Position(order, q.target)

\* C19: recommendations of equal priority appear in their discovery order
\* (sources in scan order, then targets in scan order).
C19_TiesInDiscoveryOrder ==
    \A i \in 1..Len(recommendations), j \in 1..Len(recommendations) :
        (i < j /\ recommendations[i].priority = recommendations[j].priority)
            => DiscoveredBefore(recommendations[i], recommendations[j])

\* two recommendations of equal priority placed after one of higher
\* priority that was discovered later than both
C19_Witness ==
    \E i \in 1..Len(recommendations), j \in 1..Len(recommendations),
       k \in 1..Len(recommendations) :
        /\ k < i /\ i < j
        /\ recommendations[i].priority = recommendations[j].priority
        /\ recommendations[k].priority > recommendations[i].priority
        /\ DiscoveredBefore(recommendations[i], recommendations[k])
        /\ DiscoveredBefore(recommendations[j], recommendations[k])

BonusValues == {0, Pts(10), Pts(15), Pts(20), Pts(30), Pts(35), Pts(45)}

\* the bonus part of the priority the code computes for (source, target)
ComputedBonus(source, target) ==
    calculate_bridge_priority(repos, source, target)
        - Value(source) - (Pts(100) - Value(target))

ScannedNames == {e.name : e \in Entries(repos)}

\* C20: the computed bonus of every pair of names is one of 0, 10, 15, 20,
\* 30, 35, 45 (never 25), and every recommendation has a priority strictly
\* above 120 and strictly below 245.
C20_BonusAndPriorityRange ==
    /\ \A s \in ScannedNames, t \in ScannedNames :
          /\ ComputedBonus(s, t) \in BonusValues
          /\ ComputedBonus(s, t) # Pts(25)
    /\ \A r \in Recs : r.priority > Pts(120) /\ r.priority < Pts(245)

\* the flagship source at value 100 towards ob1-simple-ai at value 0.5:
\* bonus 45 and priority 244.5
C20_Witness ==
    \E r \in Recs :
        /\ r.source = N_ob1_enhanced_capabilities
        /\ r.target = N_ob1_simple_ai
        /\ ComputedBonus(r.source, r.target) = Pts(45)
        /\ r.priority = Pts(245) - 50

---------------------------------------------------------------------------
\* Properties of the enhancement phase and of the scans (SpecCall)

PassesFilter(name) ==
    /\ \/ EndsWith(X_py, name) \/ EndsWith(X_js, name)
       \/ EndsWith(X_ts, name) \/ EndsWith(X_md, name)
    /\ \/ Contains(K_util, Lower(name)) \/ Contains(K_helper, Lower(name))
       \/ Contains(K_config, Lower(name)) \/ Contains(S_ai, Lower(name))
       \/ Contains(S_agent, Lower(name))

Passed(contents) ==
    {contents[i] : i \in {k \in 1..Len(contents) : PassesFilter(contents[k])}}

\* every filename a body mentions: the bullet list and the "Extract
\* utilities" line
Mentioned(body) ==
    {body.listed[i] : i \in 1..Len(body.listed)} \cup {body.extract_from[2]}

\* C15: the issue body lists at most 3 filenames, every filename it
\* mentions passed the extension-and-keyword filter on the source listing,
\* and an issue is created only when at least one file passed the filter.
C15_IssueBodyBounded ==
    Returned("inject_capabilities") =>
        LET issues == result.value.issues
        IN  /\ Len(issues) <= 1
            /\ \A k \in 1..Len(issues) :
                  /\ Len(issues[k].body.listed) <= 3
                  /\ Mentioned(issues[k].body)
                        \subseteq Passed(call.remote.contents)
            /\ issues # << >> => Passed(call.remote.contents) # {}

\* an issue filed for a listing with four useful files and a filtered one
C15_Witness ==
    /\ Returned("inject_capabilities")
    /\ Cardinality(Passed(call.remote.contents)) >= 4
    /\ Len(call.remote.contents) > Cardinality(Passed(call.remote.contents))
    /\ Len(result.value.issues) = 1
    /\ Len(result.value.issues[1].body.listed) = 3

\* C14: execute_autonomous_enhancements attempts exactly the first
\* min(3, n) recommendations, in list order, whether or not an earlier
\* attempt failed.
C14_TopThreeAttempted ==
    Returned("execute_autonomous_enhancements") =>
        LET log  == result.value.log
            recs == call.recommendations
        IN  /\ Len(log) = Min(3, Len(recs))
            /\ \A i \in 1..Len(log) :
                  /\ log[i].source = recs[i].source
                  /\ log[i].target = recs[i].target
                  /\ log[i].status \in {"INJECTED", "FAILED"}

\* four or more recommendations, the first attempt failed, the second and
\* third were made and the second filed its issue
C14_Witness ==
    /\ Returned("execute_autonomous_enhancements")
    /\ Len(call.recommendations) >= 4
    /\ Len(result.value.log) = 3
    /\ result.value.log[1].status = "FAILED"
    /\ result.value.log[2].status = "INJECTED"
    /\ \E k \in 1..Len(result.value.issues) :
          result.value.issues[k].repo = call.recommendations[2].target

NamesOf(s) == [i \in 1..Len(s) |-> s[i].name]

Succeeded(response) == response.status_code = 200

\* C11 as stated: a repository whose commits or issues could not be
\* obtained is left out of the scored set, and every other repository of
\* the listing is scored, in the engine's scan and in the mapper's.
C11_Original ==
    /\ Returned("scan_repository_mesh") =>
          NamesOf(result.value.repos_data)
              = NamesOf(SelectSeq(call.listing, LAMBDA r : ~r.raises))
    /\ (Returned("scan_mesh_topology") /\ Succeeded(call.response)) =>
          NamesOf(result.value)
              = NamesOf(SelectSeq(call.listing, LAMBDA r :
                    /\ Contains(S_ob1, Lower(r.name))
                    /\ Succeeded(r.commits_response)
                    /\ Succeeded(r.issues_response)))

---------------------------------------------------------------------------
\* Properties of the run as a whole (SpecRun)

\* C12 as stated: a run in which the repository list could not be
\* obtained or the write of MESH_MAP.json failed ends as a failure its
\* caller sees: it is not reported as complete, and MESH_MAP.json is what
\* it was before the run.
C12_Original ==
    /\ [](engine_pc = "error" => activator_report # "Mesh analysis complete")
    /\ [][engine_pc' = "error" => MESH_MAP_json' = MESH_MAP_json]_vars

\* C13 as stated: the repositories mapping of the snapshot the latest run
\* wrote holds exactly the repositories scored in that run.
C13_Original ==
    engine_pc = "complete" =>
        {e.name : e \in Entries(MESH_MAP_json.repositories)}
            = {e.name : e \in Entries(repos_data)}

=============================================================================
